---- MODULE Spec2Model ----
(***************************************************************************)
(* Booking-conflict engine of the bronly reservation application:          *)
(* ReservationForm / AvailabilityCheckForm (apps/reservations/forms.py)    *)
(* and the reservation views (apps/reservations/views.py).                 *)
(*                                                                         *)
(* Times of day are minutes since midnight, dates are day numbers, a       *)
(* datetime is date * 1440 + time.  A stored reservation's id is its       *)
(* position in the sequence `reservations`.                                *)
(***************************************************************************)
EXTENDS Integers, Sequences, FiniteSets

VARIABLES reservations, today, last, inflight, restaurant_store, table_store, seed

\* The restaurant and table stores written by the owner views, and the state
\* of the seeding command.
management == <<restaurant_store, table_store, seed>>

vars == <<reservations, today, last, inflight, restaurant_store, table_store, seed>>

(***************************************************************************)
(* Bounds of the model.                                                    *)
(***************************************************************************)
MaxReservations == 2
MaxSeeded == 1
MaxDay == 2
MaxRestaurants == 2
MaxTables == 2
MaxSeedCount == 3
BatchSize == 2

(***************************************************************************)
(* The world the requests act on: users, restaurants and tables.           *)
(***************************************************************************)
Users == {"u1", "u2"}

RestaurantIds == {1, 2, 3}

\* Restaurant rows: owner, opening_time, closing_time.  Restaurant 3 is open
\* from 00:00 to 23:59.
Restaurant ==
    [r \in RestaurantIds |->
        CASE r = 1 -> [owner |-> "u1", opening_time |-> 1020, closing_time |-> 1140]
          [] r = 2 -> [owner |-> "u2", opening_time |-> 600, closing_time |-> 1320]
          [] OTHER -> [owner |-> "u1", opening_time |-> 0, closing_time |-> 1439]]

TableIds == {1, 2, 3, 4}

\* Table rows: restaurant, capacity, is_active.
Table ==
    [t \in TableIds |->
        CASE t = 1 -> [restaurant |-> 1, capacity |-> 2, is_active |-> TRUE]
          [] t = 2 -> [restaurant |-> 2, capacity |-> 22, is_active |-> TRUE]
          [] t = 3 -> [restaurant |-> 1, capacity |-> 4, is_active |-> FALSE]
          [] OTHER -> [restaurant |-> 3, capacity |-> 4, is_active |-> TRUE]]

\* restaurant_id absent from the request body, or naming no restaurant.
NoRestaurant == 0

STATUS_CHOICES == {"pending", "confirmed", "cancelled", "completed", "no_show"}

\* status__in=['pending', 'confirmed']
ActiveStatuses == {"pending", "confirmed"}

\* timedelta(hours=2), in minutes
TwoHours == 120

\* deposit_amount of a row whose deposit was never set (null=True).
None == 0 - 1

\* datetime.combine(date, time)
combine(date, time) == date * 1440 + time

(***************************************************************************)
(* ReservationForm                                                         *)
(***************************************************************************)

\* Choices of the `table` ModelChoiceField: every table, or the active
\* tables of the restaurant given as context.
table_queryset(restaurant) ==
    IF restaurant # NoRestaurant
    THEN {t \in TableIds : Table[t].restaurant = restaurant /\ Table[t].is_active}
    ELSE TableIds

\* TRUE when the table field cleans without error.
clean_table(table, restaurant) ==
    /\ table \in table_queryset(restaurant)
    /\ ~(restaurant # NoRestaurant /\ Table[table].restaurant # restaurant)

\* Variant: today itself counts as past.
clean_reservation_date_today_past(date, now) == ~(date <= now)

\* TRUE when the date field cleans without error.
clean_reservation_date(date, now) == ~(date < now)

\* Variant: the upper limit of the guest count is not checked.
clean_guest_count_no_maximum(guest_count) == ~(guest_count = 0 \/ guest_count < 1)

\* Variant: the lower limit of the guest count is not checked.
clean_guest_count_no_minimum(guest_count) == ~(guest_count > 20)

\* TRUE when the guest count field cleans without error.
clean_guest_count(guest_count) ==
    /\ ~(guest_count = 0 \/ guest_count < 1)
    /\ ~(guest_count > 20)

\* Variant: the query does not filter on status.
existing_reservations_any_status(store, table, reservation_date) ==
    {i \in 1..Len(store) :
        /\ store[i].table = table
        /\ store[i].reservation_date = reservation_date}

\* Reservation.objects.filter(table=, reservation_date=, status__in=[...])
existing_reservations(store, table, reservation_date) ==
    {i \in 1..Len(store) :
        /\ store[i].table = table
        /\ store[i].reservation_date = reservation_date
        /\ store[i].status \in ActiveStatuses}

\* Variant: only a reservation at the identical time conflicts.
check_time_conflicts_exact_time(store, table, reservation_date, reservation_time) ==
    ~ \E i \in existing_reservations(store, table, reservation_date) :
        store[i].reservation_time = reservation_time

\* Variant: windows that merely touch count as overlapping.
check_time_conflicts_inclusive(store, table, reservation_date, reservation_time) ==
    LET new_reservation_start == combine(reservation_date, reservation_time)
        new_reservation_end == new_reservation_start + TwoHours
    IN  ~ \E i \in existing_reservations(store, table, reservation_date) :
            LET existing_start == combine(store[i].reservation_date,
                                          store[i].reservation_time)
                existing_end == existing_start + TwoHours
            IN  (new_reservation_start <= existing_end)
                    /\ (new_reservation_end >= existing_start)

\* TRUE when NO stored active reservation overlaps the 2-hour window.
check_time_conflicts(store, table, reservation_date, reservation_time) ==
    LET new_reservation_start == combine(reservation_date, reservation_time)
        new_reservation_end == new_reservation_start + TwoHours
    IN  ~ \E i \in existing_reservations(store, table, reservation_date) :
            LET existing_start == combine(store[i].reservation_date,
                                          store[i].reservation_time)
                existing_end == existing_start + TwoHours
            IN  (new_reservation_start < existing_end)
                    /\ (new_reservation_end > existing_start)

\* Variant: the closing time itself is not bookable.
within_operating_hours_before_closing(restaurant, reservation_time) ==
    /\ Restaurant[restaurant].opening_time <= reservation_time
    /\ reservation_time < Restaurant[restaurant].closing_time

\* restaurant.opening_time <= reservation_time <= restaurant.closing_time
within_operating_hours(restaurant, reservation_time) ==
    /\ Restaurant[restaurant].opening_time <= reservation_time
    /\ reservation_time <= Restaurant[restaurant].closing_time

\* Errors added by the per-field cleaning (Form._clean_fields).
field_errors(data, restaurant, now) ==
    (IF clean_table(data.table, restaurant) THEN {} ELSE {"table"})
    \cup (IF clean_reservation_date(data.reservation_date, now)
          THEN {} ELSE {"reservation_date"})
    \cup (IF clean_guest_count(data.guest_count) THEN {} ELSE {"guest_count"})

\* Errors raised by ReservationForm.clean: it returns early when a field is
\* missing from cleaned_data and raises on the first failed validation.
clean(store, data, restaurant, now) ==
    IF field_errors(data, restaurant, now) # {}
    THEN {}
    ELSE IF data.guest_count > Table[data.table].capacity
    THEN {"guest_count"}
    ELSE IF ~within_operating_hours(Table[data.table].restaurant,
                                    data.reservation_time)
    THEN {"reservation_time"}
    ELSE IF ~check_time_conflicts(store, data.table, data.reservation_date,
                                  data.reservation_time)
    THEN {"__all__"}
    ELSE {}

\* form.errors after full_clean()
form_errors(store, data, restaurant, now) ==
    field_errors(data, restaurant, now) \cup clean(store, data, restaurant, now)

is_valid(store, data, restaurant, now) ==
    form_errors(store, data, restaurant, now) = {}

\* form.errors of ReservationForm(data, instance=store[instance_id]), the
\* form bound to a stored reservation for an update: _check_time_conflicts
\* runs the same query as for a new booking and never refers to the instance.
update_form_errors(store, instance_id, data, restaurant, now) ==
    form_errors(store, data, restaurant, now)

\* Variant: a new booking is stored as already confirmed.
new_reservation_confirmed(user, data) ==
    [customer |-> user,
     table |-> data.table,
     reservation_date |-> data.reservation_date,
     reservation_time |-> data.reservation_time,
     guest_count |-> data.guest_count,
     status |-> "confirmed",
     deposit_amount |-> None]

\* form.save(commit=False); reservation.customer = request.user
new_reservation(user, data) ==
    [customer |-> user,
     table |-> data.table,
     reservation_date |-> data.reservation_date,
     reservation_time |-> data.reservation_time,
     guest_count |-> data.guest_count,
     status |-> "pending",
     deposit_amount |-> None]

(***************************************************************************)
(* AvailabilityCheckForm                                                   *)
(***************************************************************************)

\* TRUE when Table.objects.get(id=table_id) finds a row.
clean_table_id(table_id) == table_id \in TableIds

\* Variant: only a reservation at the identical time makes the slot
\* unavailable.
check_availability_exact_time(store, table, reservation_date, reservation_time) ==
    ~ \E i \in existing_reservations(store, table, reservation_date) :
        store[i].reservation_time = reservation_time

\* TRUE when NO stored active reservation overlaps the 2-hour window.
check_availability(store, table, reservation_date, reservation_time) ==
    LET new_reservation_start == combine(reservation_date, reservation_time)
        new_reservation_end == new_reservation_start + TwoHours
    IN  ~ \E i \in existing_reservations(store, table, reservation_date) :
            LET existing_start == combine(store[i].reservation_date,
                                          store[i].reservation_time)
                existing_end == existing_start + TwoHours
            IN  (new_reservation_start < existing_end)
                    /\ (new_reservation_end > existing_start)

\* form.errors of AvailabilityCheckForm after full_clean()
availability_errors(store, table_id, reservation_date, reservation_time, now) ==
    LET fields ==
            (IF clean_table_id(table_id) THEN {} ELSE {"table_id"})
            \cup (IF clean_reservation_date(reservation_date, now)
                  THEN {} ELSE {"reservation_date"})
    IN  IF fields # {}
        THEN fields
        ELSE IF ~within_operating_hours(Table[table_id].restaurant,
                                        reservation_time)
        THEN {"reservation_time"}
        ELSE IF ~check_availability(store, table_id, reservation_date,
                                    reservation_time)
        THEN {"__all__"}
        ELSE {}

(***************************************************************************)
(* Reservation.check_conflict, as called by test_reservation_flow: the     *)
(* Reservation model defines no such attribute, so the call raises         *)
(* AttributeError and yields no decision.                                  *)
(***************************************************************************)
check_conflict(store, table, date, time) ==
    [raised |-> TRUE, has_conflict |-> FALSE]

(***************************************************************************)
(* Initial state: empty store, nothing in flight.                          *)
(***************************************************************************)
Workers == {1, 2}

Idle == [pc |-> "idle"]

NoRequest == [op |-> "none", result |-> "none", errors |-> {}]

\* The seeding command is not running.
NotSeeding ==
    [pc |-> "idle", count |-> 0, batch |-> <<>>, created_count |-> 0,
     attempts |-> 0]

Init ==
    /\ reservations = <<>>
    /\ today = 1
    /\ last = NoRequest
    /\ inflight = [w \in Workers |-> Idle]
    /\ restaurant_store = <<>>
    /\ table_store = <<>>
    /\ seed = NotSeeding

(***************************************************************************)
(* Views, executed one request at a time.                                  *)
(***************************************************************************)
\* Variant: the row is saved before the form is validated.
create_reservation_ajax_save_first(user, data, restaurant_id) ==
    LET restaurant == IF restaurant_id \in RestaurantIds
                      THEN restaurant_id ELSE NoRestaurant
        errors == form_errors(reservations, data, restaurant, today)
    IN  /\ Len(reservations) < MaxReservations
        /\ reservations' = Append(reservations, new_reservation(user, data))
        /\ last' = [op |-> "create",
                    result |-> IF errors = {} THEN "success" ELSE "errors",
                    errors |-> errors]
        /\ UNCHANGED <<management, today, inflight>>

create_reservation_ajax(user, data, restaurant_id) ==
    LET restaurant == IF restaurant_id \in RestaurantIds
                      THEN restaurant_id ELSE NoRestaurant
        errors == form_errors(reservations, data, restaurant, today)
    IN  /\ errors = {} => Len(reservations) < MaxReservations
        /\ reservations' = IF errors = {}
                           THEN Append(reservations, new_reservation(user, data))
                           ELSE reservations
        /\ last' = [op |-> "create",
                    result |-> IF errors = {} THEN "success" ELSE "errors",
                    errors |-> errors]
        /\ UNCHANGED <<management, today, inflight>>

\* Variant: any logged-in user may cancel.
cancel_response_no_permission_check(store, user, reservation_id) ==
    LET reservation == store[reservation_id]
    IN  IF reservation_id \notin 1..Len(store)
        THEN [result |-> "not_found", message |-> "Not Found"]
        ELSE IF reservation.status \in {"cancelled", "completed"}
        THEN [result |-> "forbidden",
              message |-> "This reservation cannot be cancelled."]
        ELSE [result |-> "redirect", message |-> ""]

\* Variant: the status is tested before the permission.
cancel_response_status_first(store, user, reservation_id) ==
    LET reservation == store[reservation_id]
        is_customer == reservation.customer = user
        is_owner == Restaurant[Table[reservation.table].restaurant].owner = user
    IN  IF reservation_id \notin 1..Len(store)
        THEN [result |-> "not_found", message |-> "Not Found"]
        ELSE IF reservation.status \in {"cancelled", "completed"}
        THEN [result |-> "forbidden",
              message |-> "This reservation cannot be cancelled."]
        ELSE IF ~(is_customer \/ is_owner)
        THEN [result |-> "forbidden",
              message |-> "You do not have permission to cancel this reservation."]
        ELSE [result |-> "redirect", message |-> ""]

\* Response of cancel_reservation to the request of `user` for the row
\* `reservation_id` of `store`: the status of the HTTP response and the text
\* that tells a permission refusal from a refused state.
cancel_response(store, user, reservation_id) ==
    LET reservation == store[reservation_id]
        is_customer == reservation.customer = user
        is_owner == Restaurant[Table[reservation.table].restaurant].owner = user
    IN  IF reservation_id \notin 1..Len(store)
        THEN [result |-> "not_found", message |-> "Not Found"]
        ELSE IF ~(is_customer \/ is_owner)
        THEN [result |-> "forbidden",
              message |-> "You do not have permission to cancel this reservation."]
        ELSE IF reservation.status \in {"cancelled", "completed"}
        THEN [result |-> "forbidden",
              message |-> "This reservation cannot be cancelled."]
        ELSE [result |-> "redirect", message |-> ""]

cancel_reservation(user, reservation_id) ==
    LET response == cancel_response(reservations, user, reservation_id)
    IN  /\ reservations' = IF response.result = "redirect"
                           THEN [reservations EXCEPT
                                    ![reservation_id].status = "cancelled"]
                           ELSE reservations
        /\ last' = [op |-> "cancel", result |-> response.result,
                    errors |-> {}, message |-> response.message]
        /\ UNCHANGED <<management, today, inflight>>

\* Variant: the owner may confirm a reservation in any status.
confirm_response_any_status(store, user, reservation_id) ==
    LET reservation == store[reservation_id]
    IN  IF reservation_id \notin 1..Len(store)
        THEN [result |-> "not_found", message |-> "Not Found"]
        ELSE IF Restaurant[Table[reservation.table].restaurant].owner # user
        THEN [result |-> "forbidden",
              message |-> "You do not have permission to confirm this reservation."]
        ELSE [result |-> "redirect", message |-> ""]

\* Variant: the customer may confirm as well as the owner.
confirm_response_customer_too(store, user, reservation_id) ==
    LET reservation == store[reservation_id]
    IN  IF reservation_id \notin 1..Len(store)
        THEN [result |-> "not_found", message |-> "Not Found"]
        ELSE IF Restaurant[Table[reservation.table].restaurant].owner # user
                    /\ reservation.customer # user
        THEN [result |-> "forbidden",
              message |-> "You do not have permission to confirm this reservation."]
        ELSE IF reservation.status # "pending"
        THEN [result |-> "forbidden",
              message |-> "This reservation cannot be confirmed."]
        ELSE [result |-> "redirect", message |-> ""]

\* Variant: a missing reservation is answered like a lack of permission.
confirm_response_missing_forbidden(store, user, reservation_id) ==
    LET reservation == store[reservation_id]
    IN  IF reservation_id \notin 1..Len(store)
        THEN [result |-> "forbidden",
              message |-> "You do not have permission to confirm this reservation."]
        ELSE IF Restaurant[Table[reservation.table].restaurant].owner # user
        THEN [result |-> "forbidden",
              message |-> "You do not have permission to confirm this reservation."]
        ELSE IF reservation.status # "pending"
        THEN [result |-> "forbidden",
              message |-> "This reservation cannot be confirmed."]
        ELSE [result |-> "redirect", message |-> ""]

\* Response of confirm_reservation to the request of `user` for the row
\* `reservation_id` of `store`.
confirm_response(store, user, reservation_id) ==
    LET reservation == store[reservation_id]
    IN  IF reservation_id \notin 1..Len(store)
        THEN [result |-> "not_found", message |-> "Not Found"]
        ELSE IF Restaurant[Table[reservation.table].restaurant].owner # user
        THEN [result |-> "forbidden",
              message |-> "You do not have permission to confirm this reservation."]
        ELSE IF reservation.status # "pending"
        THEN [result |-> "forbidden",
              message |-> "This reservation cannot be confirmed."]
        ELSE [result |-> "redirect", message |-> ""]

\* Variant: the owner's confirm request for a confirmed reservation marks it
\* completed.
confirm_reservation_completes(user, reservation_id) ==
    LET response == confirm_response(reservations, user, reservation_id)
        completes == /\ response.message = "This reservation cannot be confirmed."
                     /\ reservations[reservation_id].status = "confirmed"
    IN  /\ reservations' = IF response.result = "redirect"
                           THEN [reservations EXCEPT
                                    ![reservation_id].status = "confirmed"]
                           ELSE IF completes
                           THEN [reservations EXCEPT
                                    ![reservation_id].status = "completed"]
                           ELSE reservations
        /\ last' = [op |-> "confirm", result |-> response.result,
                    errors |-> {}, message |-> response.message]
        /\ UNCHANGED <<management, today, inflight>>

confirm_reservation(user, reservation_id) ==
    LET response == confirm_response(reservations, user, reservation_id)
    IN  /\ reservations' = IF response.result = "redirect"
                           THEN [reservations EXCEPT
                                    ![reservation_id].status = "confirmed"]
                           ELSE reservations
        /\ last' = [op |-> "confirm", result |-> response.result,
                    errors |-> {}, message |-> response.message]
        /\ UNCHANGED <<management, today, inflight>>

check_availability_ajax(table_id, date, time) ==
    LET errors == availability_errors(reservations, table_id, date, time, today)
    IN  /\ last' = [op |-> "check",
                    result |-> IF errors = {} THEN "available"
                               ELSE "unavailable",
                    errors |-> errors]
        /\ UNCHANGED <<management, reservations, today, inflight>>

(***************************************************************************)
(* Request inputs of the sequential specification.                         *)
(***************************************************************************)
FormData(tables, dates, times, guests) ==
    [table : tables, reservation_date : dates,
     reservation_time : times, guest_count : guests]

\* Bookable slots: two dates of table 1, one date of table 2.
SlotData ==
    FormData({1}, {today, today + 1}, {1020, 1080, 1140}, {2})
    \cup FormData({2}, {today}, {1020, 1080, 1140}, {2})

\* Requests failing one check each: unknown table, past date, no guests,
\* party above capacity, time after closing, party above the form's limit.
FailingData ==
    FormData({9}, {today}, {1020}, {2})
    \cup FormData({1}, {today - 1}, {1020}, {2})
    \cup FormData({1}, {today}, {1020}, {0, 3})
    \cup FormData({1}, {today}, {1141}, {2})
    \cup FormData({2}, {today}, {1020}, {21, 23})

CustomerInputs == {"u2"}

IdInputs == 1..(MaxReservations + 1)

Next ==
    \/ \E user \in CustomerInputs, data \in SlotData \cup FailingData :
            create_reservation_ajax(user, data, NoRestaurant)
    \/ \E user \in Users, id \in IdInputs : cancel_reservation(user, id)
    \/ \E user \in Users, id \in IdInputs : confirm_reservation(user, id)
    \/ \E data \in SlotData \cup FailingData :
            check_availability_ajax(data.table, data.reservation_date,
                                    data.reservation_time)

Spec == Init /\ [][Next]_vars

(***************************************************************************)
(* The validator on its own: ReservationForm(data, restaurant).is_valid()  *)
(* applied to one request, against a store that also holds rows written    *)
(* through the admin site or the seeding command (any status), after any   *)
(* number of cancel and confirm requests and midnights.                    *)
(***************************************************************************)

\* Rows written through ReservationAdmin; a cancelled row arises only from
\* cancel_reservation.
SeedRows ==
    [customer : {"u2"}, table : {1, 2}, reservation_date : {1},
     reservation_time : {1020, 1140}, guest_count : {2},
     status : STATUS_CHOICES \ {"cancelled"}, deposit_amount : {None}]

InitForm ==
    /\ reservations \in UNION {[1..n -> SeedRows] : n \in 0..MaxSeeded}
    /\ today = 1
    /\ last = NoRequest
    /\ inflight = [w \in Workers |-> Idle]
    /\ restaurant_store = <<>>
    /\ table_store = <<>>
    /\ seed = NotSeeding

\* form = ReservationForm(data=form_data, restaurant=restaurant); form.is_valid()
validate_form(data, restaurant_id) ==
    LET restaurant == IF restaurant_id \in RestaurantIds
                      THEN restaurant_id ELSE NoRestaurant
        errors == form_errors(reservations, data, restaurant, today)
    IN  /\ last' = [op |-> "is_valid",
                    result |-> IF errors = {} THEN "valid" ELSE "errors",
                    errors |-> errors,
                    data |-> data,
                    restaurant |-> restaurant]
        /\ UNCHANGED <<management, reservations, today, inflight>>

\* The server's clock passes midnight: datetime.now().date() grows by one.
AdvanceDay ==
    /\ today < MaxDay
    /\ today' = today + 1
    /\ UNCHANGED <<management, reservations, last, inflight>>

FormTableInputs == {1, 2, 3, 9}
FormDateInputs == {today - 1, today, today + 1}
FormTimeInputs == {900, 1019, 1020, 1110, 1139, 1140, 1141, 1230, 1260}
FormGuestInputs == {-1, 0, 2, 3, 21, 23}
FormRestaurantInputs == {NoRestaurant, 1}
FormIdInputs == 1..(MaxSeeded + 1)

RichData ==
    FormData(FormTableInputs, FormDateInputs, FormTimeInputs, FormGuestInputs)

\* The validated request ends the behaviour.
NextForm ==
    /\ last.op # "is_valid"
    /\ \/ \E data \in RichData, r \in FormRestaurantInputs :
                validate_form(data, r)
       \/ \E user \in Users, id \in FormIdInputs : cancel_reservation(user, id)
       \/ \E user \in Users, id \in FormIdInputs : confirm_reservation(user, id)
       \/ AdvanceDay

FormSpec == InitForm /\ [][NextForm]_vars

(***************************************************************************)
(* The lifecycle on its own: cancel and confirm requests of every user for  *)
(* every id, against a store that also holds rows written through the      *)
(* admin site (any status).                                                *)
(***************************************************************************)
NextLife ==
    \/ \E user \in Users, id \in FormIdInputs : cancel_reservation(user, id)
    \/ \E user \in Users, id \in FormIdInputs : confirm_reservation(user, id)

LifeSpec == InitForm /\ [][NextLife]_vars

(***************************************************************************)
(* Two create_reservation_ajax requests served concurrently: each worker   *)
(* validates its form against the store (views.py line 259) and later, in  *)
(* its own transaction.atomic() block, inserts the row (lines 260-263).    *)
(* Nothing orders one worker's insert before the other's validation.       *)
(***************************************************************************)
begin_create(w, user, data) ==
    /\ inflight[w].pc = "idle"
    /\ inflight' = [inflight EXCEPT ![w] =
            [pc |-> "validated", user |-> user, data |-> data,
             errors |-> form_errors(reservations, data, NoRestaurant, today)]]
    /\ UNCHANGED <<management, reservations, today, last>>

finish_create(w) ==
    /\ inflight[w].pc = "validated"
    /\ inflight[w].errors = {} => Len(reservations) < MaxReservations
    /\ IF inflight[w].errors = {}
       THEN /\ reservations' = Append(reservations,
                    new_reservation(inflight[w].user, inflight[w].data))
            /\ inflight' = [inflight EXCEPT ![w] =
                    [pc |-> "done", success |-> TRUE,
                     reservation_id |-> Len(reservations) + 1,
                     data |-> inflight[w].data]]
       ELSE /\ reservations' = reservations
            /\ inflight' = [inflight EXCEPT ![w] =
                    [pc |-> "done", success |-> FALSE,
                     reservation_id |-> 0,
                     data |-> inflight[w].data]]
    /\ UNCHANGED <<management, today, last>>

ConcData == FormData({1, 2}, {today}, {1020, 1080, 1140}, {2})

NextConc ==
    \/ \E w \in Workers, user \in CustomerInputs, data \in ConcData :
            begin_create(w, user, data)
    \/ \E w \in Workers : finish_create(w)

ConcSpec == Init /\ [][NextConc]_vars

(***************************************************************************)
(* Owner views of apps/restaurants/views.py on the restaurant store.  A    *)
(* stored restaurant's id is its position in `restaurant_store`; POST      *)
(* values are the strings the browser sends, "" for a blank field.         *)
(***************************************************************************)

\* Values posted for opening_time and closing_time.
TimeStrings == {"", "09:00", "22:00"}

\* TimeField.to_python: the time of day in minutes since midnight.
parse_time(value) ==
    CASE value = "09:00" -> 540
      [] value = "22:00" -> 1320

\* RestaurantForm.clean: TRUE when the form raises no error for the times.
\* No view builds this form.
RestaurantForm_clean(opening_time, closing_time) ==
    ~(opening_time # "" /\ closing_time # ""
        /\ parse_time(closing_time) <= parse_time(opening_time))

create_restaurant(user, name, opening_time, closing_time) ==
    LET errors ==
            (IF name = "" THEN {"required"} ELSE {})
            \cup (IF opening_time = "" \/ closing_time = ""
                  THEN {"times_required"} ELSE {})
    IN  /\ errors = {} => Len(restaurant_store) < MaxRestaurants
        /\ restaurant_store' =
                IF errors = {}
                THEN Append(restaurant_store,
                            [owner |-> user,
                             name |-> name,
                             opening_time |-> parse_time(opening_time),
                             closing_time |-> parse_time(closing_time)])
                ELSE restaurant_store
        /\ last' = [op |-> "create_restaurant",
                    result |-> IF errors = {} THEN "redirect" ELSE "errors",
                    errors |-> errors]
        /\ UNCHANGED <<reservations, today, inflight, table_store, seed>>

update_restaurant(user, restaurant_id, name, opening_time, closing_time) ==
    LET restaurant == restaurant_store[restaurant_id]
        result == IF restaurant_id \notin 1..Len(restaurant_store)
                  THEN "not_found"
                  ELSE IF restaurant.owner # user THEN "forbidden"
                  ELSE "redirect"
    IN  /\ restaurant_store' =
                IF result = "redirect"
                THEN [restaurant_store EXCEPT ![restaurant_id] =
                        [owner |-> restaurant.owner,
                         name |-> IF name # "" THEN name ELSE restaurant.name,
                         opening_time |-> IF opening_time # ""
                                          THEN parse_time(opening_time)
                                          ELSE restaurant.opening_time,
                         closing_time |-> IF closing_time # ""
                                          THEN parse_time(closing_time)
                                          ELSE restaurant.closing_time]]
                ELSE restaurant_store
        /\ last' = [op |-> "update_restaurant", result |-> result, errors |-> {}]
        /\ UNCHANGED <<reservations, today, inflight, table_store, seed>>

\* django.utils.text.slugify of the names the requests use.
slugify(name) ==
    CASE name = "Luigi's Trattoria" -> "luigis-trattoria"
      [] OTHER -> ""

\* restaurant.slug of the stored restaurant `restaurant_id`: the Restaurant
\* model declares no slug field and overrides neither save() nor
\* __getattr__, so the attribute access raises AttributeError.
restaurant_slug(store, restaurant_id) == [raised |-> TRUE, value |-> ""]

NameInputs == {"", "Luigi's Trattoria"}

RestaurantIdInputs == 1..(MaxRestaurants + 1)

NextRestaurant ==
    \/ \E user \in Users, name \in NameInputs,
          opening_time \in TimeStrings, closing_time \in TimeStrings :
            create_restaurant(user, name, opening_time, closing_time)
    \/ \E user \in Users, id \in RestaurantIdInputs, name \in NameInputs,
          opening_time \in TimeStrings, closing_time \in TimeStrings :
            update_restaurant(user, id, name, opening_time, closing_time)

RestaurantSpec == Init /\ [][NextRestaurant]_vars

(***************************************************************************)
(* reservation_deposit (apps/reservations/views.py), one request at a      *)
(* time, next to cancel and confirm requests.                              *)
(***************************************************************************)

\* Variant: the deposit page is not restricted to the customer.
reservation_deposit_any_user(user, reservation_id) ==
    LET found == reservation_id \in 1..Len(reservations)
        reservation == reservations[reservation_id]
        result == IF ~found THEN "not_found" ELSE "ok"
        computes == /\ result = "ok"
                    /\ reservation.deposit_amount \in {None, 0}
    IN  /\ reservations' =
                IF computes
                THEN [reservations EXCEPT ![reservation_id].deposit_amount =
                            reservation.guest_count * 20]
                ELSE reservations
        /\ last' = [op |-> "deposit", result |-> result, errors |-> {}]
        /\ UNCHANGED <<management, today, inflight>>

\* `not reservation.deposit_amount` holds for a null and for a zero amount.
reservation_deposit(user, reservation_id) ==
    LET found == reservation_id \in 1..Len(reservations)
        reservation == reservations[reservation_id]
        result == IF ~found THEN "not_found"
                  ELSE IF reservation.customer # user THEN "forbidden"
                  ELSE "ok"
        computes == /\ result = "ok"
                    /\ reservation.deposit_amount \in {None, 0}
    IN  /\ reservations' =
                IF computes
                THEN [reservations EXCEPT ![reservation_id].deposit_amount =
                            reservation.guest_count * 20]
                ELSE reservations
        /\ last' = [op |-> "deposit", result |-> result, errors |-> {}]
        /\ UNCHANGED <<management, today, inflight>>

NextDeposit ==
    \/ \E user \in Users, id \in FormIdInputs : reservation_deposit(user, id)
    \/ \E user \in Users, id \in FormIdInputs : cancel_reservation(user, id)
    \/ \E user \in Users, id \in FormIdInputs : confirm_reservation(user, id)

DepositSpec == InitForm /\ [][NextDeposit]_vars

(***************************************************************************)
(* PublicReservationForm (apps/restaurants/forms.py).  No view builds it.  *)
(***************************************************************************)

\* Errors of the field cleaning: the date is not in the past and the guest
\* count lies within min_value=1 and max_value=20.
public_field_errors(data, now) ==
    (IF data.reservation_date < now THEN {"reservation_date"} ELSE {})
    \cup (IF data.guest_count < 1 \/ data.guest_count > 20
          THEN {"guest_count"} ELSE {})

\* TRUE when Table.objects.get(id=, restaurant=, is_active=True) finds a row.
public_table_found(table_id, restaurant) ==
    /\ table_id \in TableIds
    /\ restaurant # NoRestaurant
    /\ Table[table_id].restaurant = restaurant
    /\ Table[table_id].is_active

\* Reservation.objects.filter(table=, reservation_date=, reservation_time=,
\* status__in=['pending', 'confirmed']).exists()
overlap_exists(store, table, reservation_date, reservation_time) ==
    \E i \in 1..Len(store) :
        /\ store[i].table = table
        /\ store[i].reservation_date = reservation_date
        /\ store[i].reservation_time = reservation_time
        /\ store[i].status \in ActiveStatuses

\* Errors of PublicReservationForm.clean: it returns early when a field is
\* missing from cleaned_data, raises when the table is not found and
\* otherwise collects the capacity, hours and overlap errors with add_error.
public_clean(store, data, restaurant, now) ==
    IF public_field_errors(data, now) # {} \/ data.table = 0
    THEN {}
    ELSE IF ~public_table_found(data.table, restaurant)
    THEN {"__all__"}
    ELSE (IF data.guest_count > Table[data.table].capacity
          THEN {"guest_count"} ELSE {})
         \cup (IF ~within_operating_hours(Table[data.table].restaurant,
                                          data.reservation_time)
               THEN {"reservation_time"} ELSE {})
         \cup (IF overlap_exists(store, data.table, data.reservation_date,
                                 data.reservation_time)
               THEN {"__all__"} ELSE {})

\* form.errors of PublicReservationForm after full_clean()
public_form_errors(store, data, restaurant, now) ==
    public_field_errors(data, now) \cup public_clean(store, data, restaurant, now)

(***************************************************************************)
(* Command.create_reservations of the seeding command.  `reservations` is  *)
(* the Reservation table, seed.batch the list `reservations` of the        *)
(* command, inserted with bulk_create when it reaches BatchSize rows (100  *)
(* in the source) and once more after the loop.                            *)
(***************************************************************************)

\* The random choices of one attempt.
SeedTables == {1}
SeedDates == {today + 1}
SeedTimeSlots == {720, 750}
SeedStatuses == {"pending", "cancelled"}

\* self.create_reservations(count, tables, customers) is entered.
seed_start(count) ==
    /\ seed.pc = "idle"
    /\ seed' = [pc |-> "loop", count |-> count, batch |-> <<>>,
                created_count |-> 0, attempts |-> 0]
    /\ UNCHANGED <<reservations, today, last, inflight,
                   restaurant_store, table_store>>

\* The query of the loop body: it reads the table, not the queued rows.
conflict_exists(store, table, date, reservation_time) ==
    \E i \in 1..Len(store) :
        /\ store[i].table = table
        /\ store[i].reservation_date = date
        /\ store[i].reservation_time = reservation_time
        /\ store[i].status \in ActiveStatuses

\* One pass of the while loop.
seed_attempt(table, customer, date, reservation_time, guest_count, status) ==
    LET reservation == [customer |-> customer,
                        table |-> table,
                        reservation_date |-> date,
                        reservation_time |-> reservation_time,
                        guest_count |-> guest_count,
                        status |-> status,
                        deposit_amount |-> None]
        queued == Append(seed.batch, reservation)
    IN  /\ seed.pc = "loop"
        /\ seed.created_count < seed.count
        /\ seed.attempts < seed.count * 3
        /\ IF conflict_exists(reservations, table, date, reservation_time)
           THEN /\ seed' = [seed EXCEPT !.attempts = @ + 1]
                /\ reservations' = reservations
           ELSE IF Len(queued) >= BatchSize
           THEN /\ seed' = [seed EXCEPT !.attempts = @ + 1,
                                        !.created_count = @ + 1,
                                        !.batch = <<>>]
                /\ reservations' = reservations \o queued
           ELSE /\ seed' = [seed EXCEPT !.attempts = @ + 1,
                                        !.created_count = @ + 1,
                                        !.batch = queued]
                /\ reservations' = reservations
        /\ UNCHANGED <<today, last, inflight, restaurant_store, table_store>>

\* The loop condition fails: the remaining rows are inserted.
seed_finish ==
    /\ seed.pc = "loop"
    /\ ~(seed.created_count < seed.count /\ seed.attempts < seed.count * 3)
    /\ reservations' = reservations \o seed.batch
    /\ seed' = [seed EXCEPT !.pc = "done", !.batch = <<>>]
    /\ UNCHANGED <<today, last, inflight, restaurant_store, table_store>>

NextSeed ==
    \/ \E count \in 1..MaxSeedCount : seed_start(count)
    \/ \E table \in SeedTables, customer \in CustomerInputs, date \in SeedDates,
          reservation_time \in SeedTimeSlots, status \in SeedStatuses :
            \E guest_count \in 1..(IF Table[table].capacity < 8
                                   THEN Table[table].capacity ELSE 8) :
                seed_attempt(table, customer, date, reservation_time,
                             guest_count, status)
    \/ seed_finish

SeedSpec == Init /\ [][NextSeed]_vars

(***************************************************************************)
(* Owner views of apps/restaurants/views.py on the table store.  A stored  *)
(* table's id is its position in `table_store`; the restaurants are those  *)
(* of `Restaurant`.                                                        *)
(***************************************************************************)

\* Values posted for capacity.
CapacityStrings == {"", "0", "-3", "4", "abc"}

\* int(capacity): the integer, or ValueError.
int(value) ==
    CASE value = "0" -> [raised |-> FALSE, value |-> 0]
      [] value = "-3" -> [raised |-> FALSE, value |-> 0 - 3]
      [] value = "4" -> [raised |-> FALSE, value |-> 4]
      [] OTHER -> [raised |-> TRUE, value |-> 0]

\* TableForm.clean_capacity: TRUE when the capacity cleans without error.
\* No view builds this form.
TableForm_clean_capacity(capacity) ==
    ~(capacity = 0 \/ capacity < 1 \/ capacity > 20)

\* Table.objects.filter(restaurant=restaurant, table_number=table_number)
\*      .exists()
table_number_exists(store, restaurant_id, table_number) ==
    \E t \in 1..Len(store) :
        store[t].restaurant = restaurant_id /\ store[t].table_number = table_number

create_table(user, restaurant_id, table_number, capacity) ==
    LET errors ==
            (IF table_number = "" \/ capacity = "" THEN {"required"} ELSE {})
            \cup (IF table_number_exists(table_store, restaurant_id, table_number)
                  THEN {"exists"} ELSE {})
        result == IF restaurant_id \notin RestaurantIds THEN "not_found"
                  ELSE IF Restaurant[restaurant_id].owner # user THEN "forbidden"
                  ELSE IF errors # {} THEN "errors"
                  ELSE IF int(capacity).raised THEN "errors"
                  ELSE "redirect"
    IN  /\ result = "redirect" => Len(table_store) < MaxTables
        /\ table_store' =
                IF result = "redirect"
                THEN Append(table_store,
                            [restaurant |-> restaurant_id,
                             table_number |-> table_number,
                             capacity |-> int(capacity).value])
                ELSE table_store
        /\ last' = [op |-> "create_table", result |-> result,
                    errors |-> IF result = "errors" /\ errors = {}
                               THEN {"capacity"} ELSE errors]
        /\ UNCHANGED <<reservations, today, inflight, restaurant_store, seed>>

\* table.save() fails on unique_together when the new number is taken by
\* another table of the restaurant.
update_table(user, table_id, table_number, capacity) ==
    LET table == table_store[table_id]
        number == IF table_number # "" THEN table_number ELSE table.table_number
        taken == \E t \in 1..Len(table_store) :
                    /\ t # table_id
                    /\ table_store[t].restaurant = table.restaurant
                    /\ table_store[t].table_number = number
        result == IF table_id \notin 1..Len(table_store) THEN "not_found"
                  ELSE IF Restaurant[table.restaurant].owner # user
                  THEN "forbidden"
                  ELSE IF capacity # "" /\ int(capacity).raised THEN "errors"
                  ELSE IF taken THEN "integrity_error"
                  ELSE "redirect"
    IN  /\ table_store' =
                IF result = "redirect"
                THEN [table_store EXCEPT ![table_id] =
                        [restaurant |-> table.restaurant,
                         table_number |-> number,
                         capacity |-> IF capacity # ""
                                      THEN int(capacity).value
                                      ELSE table.capacity]]
                ELSE table_store
        /\ last' = [op |-> "update_table", result |-> result,
                    errors |-> IF result = "errors" THEN {"capacity"} ELSE {}]
        /\ UNCHANGED <<reservations, today, inflight, restaurant_store, seed>>

TableNumberInputs == {"", "A1", "A2"}

TableRestaurantInputs == {1, 9}

TableIdInputs == 1..(MaxTables + 1)

NextTable ==
    \/ \E user \in Users, restaurant_id \in TableRestaurantInputs,
          table_number \in TableNumberInputs, capacity \in CapacityStrings :
            create_table(user, restaurant_id, table_number, capacity)
    \/ \E user \in Users, table_id \in TableIdInputs,
          table_number \in TableNumberInputs, capacity \in CapacityStrings :
            update_table(user, table_id, table_number, capacity)

TableSpec == Init /\ [][NextTable]_vars

(***************************************************************************)
(* cancel_reservation, confirm_reservation and reservation_deposit served  *)
(* concurrently.  Each request loads the row (get_object_or_404), runs its *)
(* checks and assigns the new value on its own copy, and later writes the  *)
(* whole copy back with reservation.save(); no view locks the row or       *)
(* passes update_fields.                                                   *)
(***************************************************************************)

\* The response of the view `op` decided on the row as loaded, "ok" for a
\* deposit page that is rendered.
response_of(op, user, reservation_id) ==
    CASE op = "cancel" -> cancel_response(reservations, user, reservation_id).result
      [] op = "confirm" -> confirm_response(reservations, user, reservation_id).result
      [] OTHER -> IF reservation_id \notin 1..Len(reservations) THEN "not_found"
                  ELSE IF reservations[reservation_id].customer # user
                  THEN "forbidden"
                  ELSE "ok"

\* The copy of the row after the view's assignment.
assigned(op, reservation) ==
    CASE op = "cancel" -> [reservation EXCEPT !.status = "cancelled"]
      [] op = "confirm" -> [reservation EXCEPT !.status = "confirmed"]
      [] OTHER -> [reservation EXCEPT !.deposit_amount = reservation.guest_count * 20]

\* The request is read and checked; it goes on to save() unless it was
\* refused or, for the deposit page, the amount is already set.
begin_request(w, op, user, reservation_id) ==
    LET result == response_of(op, user, reservation_id)
        saves == /\ result \in {"redirect", "ok"}
                 /\ op = "deposit"
                        => reservations[reservation_id].deposit_amount \in {None, 0}
    IN  /\ inflight[w].pc = "idle"
        /\ inflight' = [inflight EXCEPT ![w] =
                IF saves
                THEN [pc |-> "loaded", op |-> op,
                      reservation_id |-> reservation_id, result |-> result,
                      reservation |-> assigned(op, reservations[reservation_id])]
                ELSE [pc |-> "done", op |-> op,
                      reservation_id |-> reservation_id, result |-> result]]
        /\ UNCHANGED <<management, reservations, today, last>>

\* reservation.save(): every column of the row is written from the copy.
finish_request(w) ==
    /\ inflight[w].pc = "loaded"
    /\ reservations' = [reservations EXCEPT ![inflight[w].reservation_id] =
                            inflight[w].reservation]
    /\ inflight' = [inflight EXCEPT ![w] =
            [pc |-> "done", op |-> inflight[w].op,
             reservation_id |-> inflight[w].reservation_id,
             result |-> inflight[w].result]]
    /\ UNCHANGED <<management, today, last>>

RaceOps == {"cancel", "confirm", "deposit"}

NextRace ==
    \/ \E w \in Workers, op \in RaceOps, user \in Users, id \in FormIdInputs :
            begin_request(w, op, user, id)
    \/ \E w \in Workers : finish_request(w)

RaceSpec == InitForm /\ [][NextRace]_vars

(***************************************************************************)
(* Bookings of a table whose restaurant is open around midnight: create,   *)
(* cancel and confirm requests, one at a time.                             *)
(***************************************************************************)

\* Late and early slots of table 4 on two consecutive dates.
NightData ==
    FormData({4}, {today, today + 1}, {30, 90, 1380}, {2})

NextNight ==
    \/ \E user \in CustomerInputs, data \in NightData :
            create_reservation_ajax(user, data, NoRestaurant)
    \/ \E user \in Users, id \in IdInputs : cancel_reservation(user, id)
    \/ \E user \in Users, id \in IdInputs : confirm_reservation(user, id)

NightSpec == Init /\ [][NextNight]_vars

(***************************************************************************)
(* Properties.                                                             *)
(***************************************************************************)
IsActive(r) == r.status \in {"pending", "confirmed"}

\* The booking window [date+time, date+time+2h) of a slot, in minutes.
WindowStart(date, time) == date * 1440 + time
WindowEnd(date, time) == date * 1440 + time + 120

Overlap(d1, t1, d2, t2) ==
    WindowStart(d1, t1) < WindowEnd(d2, t2)
        /\ WindowEnd(d1, t1) > WindowStart(d2, t2)

SameSlotDay(r1, r2) ==
    r1.table = r2.table /\ r1.reservation_date = r2.reservation_date

\* C1: with requests executed one at a time, no two active reservations on
\* the same table and date have overlapping 2-hour windows.
C1_NoDoubleBooking ==
    \A i, j \in 1..Len(reservations) :
        (i # j /\ IsActive(reservations[i]) /\ IsActive(reservations[j])
            /\ SameSlotDay(reservations[i], reservations[j]))
        => ~Overlap(reservations[i].reservation_date,
                    reservations[i].reservation_time,
                    reservations[j].reservation_date,
                    reservations[j].reservation_time)

\* Two active bookings share a table and date, and a third request for that
\* table and date has just been rejected for conflict.
C1_Witness ==
    /\ last.op = "create" /\ "__all__" \in last.errors
    /\ \E i, j \in 1..Len(reservations) :
        /\ i # j
        /\ IsActive(reservations[i]) /\ IsActive(reservations[j])
        /\ SameSlotDay(reservations[i], reservations[j])

\* C2: of two concurrent create requests for the same table and date with
\* overlapping windows, at most one ends with a stored reservation and a
\* success response.
C2_AtMostOneWinner ==
    \A v, w \in Workers :
        (v # w /\ inflight[v].pc = "done" /\ inflight[w].pc = "done"
            /\ inflight[v].data.table = inflight[w].data.table
            /\ inflight[v].data.reservation_date
                    = inflight[w].data.reservation_date
            /\ Overlap(inflight[v].data.reservation_date,
                       inflight[v].data.reservation_time,
                       inflight[w].data.reservation_date,
                       inflight[w].data.reservation_time))
        => ~(inflight[v].success /\ inflight[w].success)

\* Some stored active reservation on the table and date starts strictly less
\* than two hours before or after the given time.
ActiveWithinTwoHours(table, date, time) ==
    \E i \in 1..Len(reservations) :
        /\ IsActive(reservations[i])
        /\ reservations[i].table = table
        /\ reservations[i].reservation_date = date
        /\ reservations[i].reservation_time - time < 120
        /\ time - reservations[i].reservation_time < 120

\* The conflict check of the form reports a conflict exactly when an active
\* reservation on the table and date starts less than two hours away.
ConflictCheckDecision ==
    last.op = "is_valid" =>
        (check_time_conflicts(reservations, last.data.table,
                              last.data.reservation_date,
                              last.data.reservation_time)
            <=> ~ActiveWithinTwoHours(last.data.table,
                                      last.data.reservation_date,
                                      last.data.reservation_time))

\* C3: the conflict check reports a conflict exactly when an active
\* reservation on the same table and date starts strictly less than two
\* hours from the candidate, and Reservation.check_conflict(table, date,
\* time) returns that same decision.
C3_ConflictDecision ==
    /\ ConflictCheckDecision
    /\ last.op = "is_valid" =>
        LET answer == check_conflict(reservations, last.data.table,
                                     last.data.reservation_date,
                                     last.data.reservation_time)
        IN  /\ ~answer.raised
            /\ answer.has_conflict
                    <=> ActiveWithinTwoHours(last.data.table,
                                             last.data.reservation_date,
                                             last.data.reservation_time)

\* Candidate slots around the stored start times, for the boundary check.
BoundaryCandidates ==
    FormData({1, 2}, {today, today + 1}, {900, 1020, 1080, 1140, 1260}, {2})

\* C4: a candidate starting exactly two hours after or before an active
\* reservation on the same table and date, with no other active reservation
\* less than two hours away, is not flagged as conflicting, and is accepted
\* when its table, date, guest count and time pass their checks.
C4_TouchingWindowsAccepted ==
    \A data \in BoundaryCandidates :
        ((\E i \in 1..Len(reservations) :
                /\ IsActive(reservations[i])
                /\ reservations[i].table = data.table
                /\ reservations[i].reservation_date = data.reservation_date
                /\ (reservations[i].reservation_time
                        = data.reservation_time + 120
                    \/ reservations[i].reservation_time + 120
                        = data.reservation_time))
            /\ ~ActiveWithinTwoHours(data.table, data.reservation_date,
                                     data.reservation_time))
        => /\ check_time_conflicts(reservations, data.table,
                                   data.reservation_date,
                                   data.reservation_time)
           /\ (/\ data.reservation_date >= today
               /\ data.guest_count >= 1
               /\ data.guest_count <= 20
               /\ data.guest_count <= Table[data.table].capacity
               /\ Restaurant[Table[data.table].restaurant].opening_time
                        <= data.reservation_time
               /\ data.reservation_time
                        <= Restaurant[Table[data.table].restaurant].closing_time)
              => is_valid(reservations, data, NoRestaurant, today)

\* A booking was accepted and stored exactly two hours after an earlier
\* booking of the same table and date, both still active.
C4_Witness ==
    \E i, j \in 1..Len(reservations) :
        /\ i < j
        /\ IsActive(reservations[i]) /\ IsActive(reservations[j])
        /\ SameSlotDay(reservations[i], reservations[j])
        /\ reservations[j].reservation_time
                = reservations[i].reservation_time + 120

\* Every stored reservation whose window overlaps the slot is cancelled,
\* completed or no_show.
OnlyInactiveOverlap(table, date, time) ==
    \A i \in 1..Len(reservations) :
        (/\ reservations[i].table = table
         /\ reservations[i].reservation_date = date
         /\ Overlap(reservations[i].reservation_date,
                    reservations[i].reservation_time, date, time))
        => reservations[i].status \in {"cancelled", "completed", "no_show"}

\* C5: cancelled, completed and no_show reservations never cause a conflict:
\* when only such reservations overlap a slot, a booking for that slot gets
\* no conflict error, and is valid when its date, capacity and hours checks
\* pass.
C5_InactiveNeverBlocks ==
    (last.op = "is_valid" /\ last.data.table \in TableIds
        /\ OnlyInactiveOverlap(last.data.table, last.data.reservation_date,
                               last.data.reservation_time))
    => /\ "__all__" \notin last.errors
       /\ (/\ last.restaurant = NoRestaurant
           /\ last.data.reservation_date >= today
           /\ last.data.guest_count >= 1
           /\ last.data.guest_count <= 20
           /\ last.data.guest_count <= Table[last.data.table].capacity
           /\ Restaurant[Table[last.data.table].restaurant].opening_time
                    <= last.data.reservation_time
           /\ last.data.reservation_time
                    <= Restaurant[Table[last.data.table].restaurant].closing_time)
          => last.result = "valid"

\* A booking for the identical table, date and time of a cancelled
\* reservation has just been found valid.
C5_Witness ==
    /\ last.op = "is_valid" /\ last.result = "valid"
    /\ \E i \in 1..Len(reservations) :
        /\ reservations[i].status = "cancelled"
        /\ reservations[i].table = last.data.table
        /\ reservations[i].reservation_date = last.data.reservation_date
        /\ reservations[i].reservation_time = last.data.reservation_time

\* The validated request passed the per-field cleaning of table, date and
\* guest count, so that clean() reaches the capacity check.
ReachedClean ==
    /\ last.op = "is_valid"
    /\ last.data.table \in TableIds
    /\ last.restaurant = NoRestaurant
    /\ last.data.reservation_date >= today
    /\ last.data.guest_count >= 1
    /\ last.data.guest_count <= 20

OverCapacity == last.data.guest_count > Table[last.data.table].capacity

OutsideHours ==
    \/ last.data.reservation_time
            < Restaurant[Table[last.data.table].restaurant].opening_time
    \/ last.data.reservation_time
            > Restaurant[Table[last.data.table].restaurant].closing_time

\* C6: the validator does not stop at the first failed check: the error set
\* holds an error for every one of the capacity, hours and conflict checks
\* that the candidate fails.
C6_AllErrorsCollected ==
    ReachedClean =>
        /\ OverCapacity => "guest_count" \in last.errors
        /\ OutsideHours => "reservation_time" \in last.errors
        /\ ActiveWithinTwoHours(last.data.table, last.data.reservation_date,
                                last.data.reservation_time)
                => "__all__" \in last.errors

\* C7: the date check rejects a date exactly when it is earlier than the
\* current date; today and later dates pass it.
C7_DateCheck ==
    last.op = "is_valid" =>
        /\ ("reservation_date" \in last.errors)
                <=> (last.data.reservation_date < today)
        /\ last.data.reservation_date < today => last.result = "errors"

\* After a midnight, a booking for the new current date has been found
\* valid.
C7_Witness ==
    /\ last.op = "is_valid" /\ last.result = "valid"
    /\ today > 1
    /\ last.data.reservation_date = today

\* C8 as stated: a guest count of 0 or less is rejected, a guest count above
\* the table's capacity is rejected, and a guest count from 1 up to the
\* capacity passes the capacity check (no guest count error).
C8_CapacityCheckAsStated ==
    (last.op = "is_valid" /\ last.data.table \in TableIds) =>
        /\ last.data.guest_count <= 0 => last.result = "errors"
        /\ last.data.guest_count > Table[last.data.table].capacity
                => last.result = "errors"
        /\ (last.data.guest_count >= 1
                /\ last.data.guest_count <= Table[last.data.table].capacity)
                => "guest_count" \notin last.errors

\* C8: a guest count of 0 or less is rejected, a guest count above the
\* table's capacity is rejected, and a guest count from 1 up to the smaller
\* of the capacity and 20 gets no guest count error.
C8_CapacityCheck ==
    (last.op = "is_valid" /\ last.data.table \in TableIds) =>
        /\ last.data.guest_count <= 0 => last.result = "errors"
        /\ last.data.guest_count > Table[last.data.table].capacity
                => last.result = "errors"
        /\ (last.data.guest_count >= 1
                /\ last.data.guest_count <= Table[last.data.table].capacity
                /\ last.data.guest_count <= 20)
                => "guest_count" \notin last.errors

\* A party exactly as large as the table's capacity has been found valid.
C8_Witness ==
    /\ last.op = "is_valid" /\ last.result = "valid"
    /\ last.data.guest_count = Table[last.data.table].capacity

\* C9: the hours check accepts a time exactly when it lies between the
\* opening and the closing time of the table's restaurant, both included;
\* no booking outside these hours is valid.
C9_HoursCheck ==
    /\ (ReachedClean /\ ~OverCapacity) =>
            (("reservation_time" \in last.errors) <=> OutsideHours)
    /\ (last.op = "is_valid" /\ last.result = "valid") => ~OutsideHours

\* A booking at the closing time of the table's restaurant has been found
\* valid.
C9_Witness ==
    /\ last.op = "is_valid" /\ last.result = "valid"
    /\ last.data.reservation_time
            = Restaurant[Table[last.data.table].restaurant].closing_time

\* C10: a create request whose validation fails, and every availability
\* check, leaves the stored reservations unchanged.
C10_FailedRequestKeepsStore ==
    [][((last'.op = "create" /\ last'.result = "errors")
            \/ last'.op = "check")
        => reservations' = reservations]_vars

\* A create request has just failed validation against a non-empty store.
C10_Witness ==
    /\ last.op = "create" /\ last.result = "errors"
    /\ Len(reservations) > 0

(***************************************************************************)
(* Reservation lifecycle                                                   *)
(***************************************************************************)

\* C11: every step that stores a new reservation stores it with the status
\* pending.
C11_CreatedPending ==
    [][Len(reservations') > Len(reservations)
        => reservations'[Len(reservations')].status = "pending"]_vars

\* A create request has just succeeded and its row is the last one stored.
C11_Witness ==
    /\ last.op = "create" /\ last.result = "success"
    /\ Len(reservations) > 0
    /\ reservations[Len(reservations)].status = "pending"

TerminalStatuses == {"cancelled", "completed", "no_show"}

\* C12: a reservation whose status is cancelled, completed or no_show keeps
\* that status in every step, and a cancel request that succeeds has moved a
\* pending or confirmed reservation to cancelled.
C12_TerminalAbsorbing ==
    [][/\ \A i \in 1..Len(reservations) :
            reservations[i].status \in TerminalStatuses
                => reservations'[i].status = reservations[i].status
       /\ \A user \in Users, id \in 1..(Len(reservations) + 1) :
            (cancel_reservation(user, id) /\ last'.result = "redirect")
                => /\ id \in 1..Len(reservations)
                   /\ reservations[id].status \in {"pending", "confirmed"}
                   /\ reservations'[id].status = "cancelled"]_vars

\* The owner of the restaurant of the table of the stored reservation i.
OwnerOf(i) == Restaurant[Table[reservations[i].table].restaurant].owner

\* The step changes the status of reservation i and nothing else in the store.
OnlyStatusChanged(i, from, to) ==
    /\ reservations[i].status = from
    /\ reservations' = [reservations EXCEPT ![i].status = to]

\* C13: a confirm request of the owner for a stored reservation that is not
\* pending is refused as an invalid transition ("cannot be confirmed") and
\* changes nothing; for a pending one it succeeds and sets confirmed; and
\* every confirm request that succeeds has moved one reservation from
\* pending to confirmed.
C13_ConfirmOnlyFromPending ==
    [][/\ \A user \in Users, id \in 1..Len(reservations) :
            (confirm_reservation(user, id) /\ user = OwnerOf(id))
                => IF reservations[id].status = "pending"
                   THEN /\ last'.result = "redirect"
                        /\ OnlyStatusChanged(id, "pending", "confirmed")
                   ELSE /\ last'.result = "forbidden"
                        /\ last'.message = "This reservation cannot be confirmed."
                        /\ reservations' = reservations
       /\ \A user \in Users, id \in 1..(Len(reservations) + 1) :
            (confirm_reservation(user, id) /\ last'.result = "redirect")
                => /\ id \in 1..Len(reservations)
                   /\ OnlyStatusChanged(id, "pending", "confirmed")]_vars

\* The owner's confirm request for a reservation that is already confirmed
\* or cancelled has just been refused as an invalid transition.
C13_Witness ==
    /\ last.op = "confirm"
    /\ last.message = "This reservation cannot be confirmed."
    /\ \E i \in 1..Len(reservations) :
            reservations[i].status \in {"confirmed", "cancelled"}

\* The user is neither the customer of the stored reservation i nor the owner
\* of its restaurant.
Stranger(user, i) == user # reservations[i].customer /\ user # OwnerOf(i)

\* C14: a cancel request of a user who is neither the customer nor the owner
\* is refused for lack of permission and changes nothing, whatever the status
\* of the reservation.
C14_StrangerCannotCancel ==
    [][\A user \in Users, id \in 1..Len(reservations) :
            (cancel_reservation(user, id) /\ Stranger(user, id))
                => /\ last'.result = "forbidden"
                   /\ last'.message
                        = "You do not have permission to cancel this reservation."
                   /\ reservations' = reservations]_vars

\* A cancel request has just been refused for lack of permission while a
\* reservation that could still be cancelled is stored.
C14_Witness ==
    /\ last.op = "cancel"
    /\ last.message = "You do not have permission to cancel this reservation."
    /\ \E i \in 1..Len(reservations) :
            reservations[i].status \in {"pending", "confirmed"}

\* C15: a confirm request of any user other than the owner of the table's
\* restaurant, the reservation's customer included, leaves the store
\* unchanged, and every step that moves a reservation from pending to
\* confirmed is a confirm request of that owner.
C15_OnlyOwnerConfirms ==
    [][/\ \A user \in Users, id \in 1..Len(reservations) :
            (confirm_reservation(user, id) /\ user # OwnerOf(id))
                => /\ last'.result = "forbidden"
                   /\ reservations' = reservations
       /\ \A i \in 1..Len(reservations) :
            (reservations[i].status = "pending"
                    /\ reservations'[i].status = "confirmed")
                => confirm_reservation(OwnerOf(i), i)]_vars

\* The customer of a pending reservation, who is not the owner, has just been
\* refused the confirmation and the reservation is still pending.
C15_Witness ==
    /\ last.op = "confirm"
    /\ last.message = "You do not have permission to confirm this reservation."
    /\ \E i \in 1..Len(reservations) :
            /\ reservations[i].status = "pending"
            /\ reservations[i].customer # OwnerOf(i)

\* C16: when the requester lacks permission and the reservation is in a
\* state the request is not allowed from, the answer is the permission
\* refusal, not the refusal of the state.
C16_PermissionBeforeState ==
    [][\A user \in Users, id \in 1..Len(reservations) :
        /\ (/\ cancel_reservation(user, id)
            /\ Stranger(user, id)
            /\ reservations[id].status \in {"cancelled", "completed"})
                => last'.message
                    = "You do not have permission to cancel this reservation."
        /\ (/\ confirm_reservation(user, id)
            /\ user # OwnerOf(id)
            /\ reservations[id].status # "pending")
                => last'.message
                    = "You do not have permission to confirm this reservation."]_vars

\* A cancel request has just been refused for lack of permission while every
\* stored reservation is cancelled or completed.
C16_Witness ==
    /\ last.op = "cancel"
    /\ last.message = "You do not have permission to cancel this reservation."
    /\ Len(reservations) > 0
    /\ \A i \in 1..Len(reservations) :
            reservations[i].status \in {"cancelled", "completed"}

\* A request of the owner moves the confirmed reservation i to the status
\* `to`.
OwnerMoves(i, to) ==
    /\ reservations[i].status = "confirmed"
    /\ \E id \in IdInputs :
            \/ cancel_reservation(OwnerOf(i), id)
            \/ confirm_reservation(OwnerOf(i), id)
    /\ reservations'[i].status = to

OwnSlot(i) ==
    [table |-> reservations[i].table,
     reservation_date |-> reservations[i].reservation_date,
     reservation_time |-> reservations[i].reservation_time,
     guest_count |-> reservations[i].guest_count]

\* Another active reservation overlaps the slot of the stored reservation i.
OtherActiveOverlaps(i) ==
    \E j \in 1..Len(reservations) :
        /\ j # i
        /\ IsActive(reservations[j])
        /\ SameSlotDay(reservations[i], reservations[j])
        /\ Overlap(reservations[i].reservation_date,
                   reservations[i].reservation_time,
                   reservations[j].reservation_date,
                   reservations[j].reservation_time)

\* C18: when a stored active reservation is validated again for its own
\* slot with itself excluded, it is not counted as a conflict with itself:
\* the conflict error appears exactly when another active reservation
\* overlaps the slot.
C18_UpdateExcludesItself ==
    \A i \in 1..Len(reservations) :
        LET errors == update_form_errors(reservations, i, OwnSlot(i),
                                         NoRestaurant, today)
        IN  (IsActive(reservations[i]) /\ errors \subseteq {"__all__"})
                => (("__all__" \in errors) <=> OtherActiveOverlaps(i))

\* C19: a cancel or confirm request for an id that names no stored
\* reservation is answered "not found" and changes nothing; a create request
\* for a table id that names no table is rejected with a table error and
\* stores nothing.
C19_MissingReferences ==
    [][/\ \A user \in Users, id \in IdInputs :
            (/\ id \notin 1..Len(reservations)
             /\ last'.op \in {"cancel", "confirm"}
             /\ (cancel_reservation(user, id) \/ confirm_reservation(user, id)))
                => /\ last'.result = "not_found"
                   /\ reservations' = reservations
       /\ \A user \in CustomerInputs,
             data \in {d \in SlotData \cup FailingData : d.table \notin TableIds} :
            (last'.op = "create" /\ create_reservation_ajax(user, data, NoRestaurant))
                => /\ last'.result = "errors"
                   /\ "table" \in last'.errors
                   /\ reservations' = reservations]_vars

\* A cancel or confirm request for a missing id has just been answered while
\* reservations are stored.
C19_Witness ==
    /\ last.op \in {"cancel", "confirm"}
    /\ last.result = "not_found"
    /\ Len(reservations) > 0

\* C20: every stored reservation has a guest count between 1 and 20 that
\* does not exceed the capacity of its table.
C20_StoredGuestCount ==
    \A i \in 1..Len(reservations) :
        /\ 1 <= reservations[i].guest_count
        /\ reservations[i].guest_count <= 20
        /\ reservations[i].guest_count <= Table[reservations[i].table].capacity

\* A reservation that fills its table is stored and a create request has just
\* been rejected for its guest count.
C20_Witness ==
    /\ last.op = "create" /\ "guest_count" \in last.errors
    /\ \E i \in 1..Len(reservations) :
            reservations[i].guest_count = Table[reservations[i].table].capacity


(***************************************************************************)
(* Restaurants and tables                                                  *)
(***************************************************************************)

\* C21: every stored restaurant opens strictly before it closes.
C21_OpenBeforeClose ==
    \A r \in 1..Len(restaurant_store) :
        restaurant_store[r].opening_time < restaurant_store[r].closing_time


\* C26: every stored restaurant has a slug that is generated from its name
\* (the slugified name, alone or followed by a counter suffix), and no two
\* stored restaurants have the same slug.
C26_UniqueSlugs ==
    /\ \A r \in 1..Len(restaurant_store) :
        LET slug == restaurant_slug(restaurant_store, r)
            base == slugify(restaurant_store[r].name)
        IN  /\ ~slug.raised
            /\ slug.value \in {base} \cup {base \o "-1", base \o "-2"}
    /\ \A r, q \in 1..Len(restaurant_store) :
        r # q => restaurant_slug(restaurant_store, r).value
                    # restaurant_slug(restaurant_store, q).value

\* C25: every stored table has a capacity of at least 1.
C25_PositiveCapacity ==
    \A t \in 1..Len(table_store) : table_store[t].capacity >= 1

(***************************************************************************)
(* Deposit                                                                 *)
(***************************************************************************)

\* C22: a deposit view of the reservation's customer on a reservation with
\* no deposit sets deposit_amount to guest_count * 20 and changes nothing
\* else; a deposit view on a reservation that has a deposit, or by any other
\* user, changes nothing.
C22_DepositSetOnce ==
    [][\A user \in Users, id \in 1..Len(reservations) :
        (last'.op = "deposit" /\ reservation_deposit(user, id))
            => IF user = reservations[id].customer
                    /\ reservations[id].deposit_amount = None
               THEN reservations'
                        = [reservations EXCEPT ![id].deposit_amount =
                                reservations[id].guest_count * 20]
               ELSE reservations' = reservations]_vars

\* A deposit view has just been answered for a reservation whose deposit is
\* set, after a cancel or confirm changed its status.
C22_Witness ==
    /\ last.op = "deposit" /\ last.result = "ok"
    /\ \E i \in 1..Len(reservations) :
            /\ reservations[i].deposit_amount = reservations[i].guest_count * 20
            /\ reservations[i].status = "cancelled"


(***************************************************************************)
(* Other conflict checks of the repository                                 *)
(***************************************************************************)

\* C23: for a candidate that reaches the overlap check of
\* PublicReservationForm, the form reports the non-field conflict error
\* exactly when the candidate's 2-hour window overlaps an active reservation
\* on the table and date, that is exactly when the conflict check of
\* ReservationForm fails.
C23_PublicFormSameConflicts ==
    (/\ last.op = "is_valid"
     /\ public_field_errors(last.data, today) = {}
     /\ public_table_found(last.data.table, last.restaurant))
        => LET errors == public_form_errors(reservations, last.data,
                                            last.restaurant, today)
           IN  /\ ("__all__" \in errors)
                    <=> ActiveWithinTwoHours(last.data.table,
                                             last.data.reservation_date,
                                             last.data.reservation_time)
               /\ ("__all__" \in errors)
                    <=> ~check_time_conflicts(reservations, last.data.table,
                                              last.data.reservation_date,
                                              last.data.reservation_time)


\* Two distinct stored active reservations have the same table, date and
\* time.
SameSlotTwice ==
    \E i, j \in 1..Len(reservations) :
        /\ i # j
        /\ IsActive(reservations[i]) /\ IsActive(reservations[j])
        /\ reservations[i].table = reservations[j].table
        /\ reservations[i].reservation_date = reservations[j].reservation_date
        /\ reservations[i].reservation_time = reservations[j].reservation_time

\* C24: when the seeding command has finished, no two active reservations it
\* created share table, date and time, it has made at most count * 3
\* attempts and it has created at most count reservations.
C24_SeedNoDoubleBooking ==
    seed.pc = "done"
        => /\ ~SameSlotTwice
           /\ seed.attempts <= seed.count * 3
           /\ seed.created_count <= seed.count
           /\ Len(reservations) <= seed.count


\* The validated request has a guest count between 1 and the smaller of 20
\* and the capacity of its table (any guest count for an unknown table).
GuestCountFits ==
    /\ last.data.guest_count >= 1
    /\ last.data.guest_count <= 20
    /\ last.data.table \in TableIds
        => last.data.guest_count <= Table[last.data.table].capacity

\* The availability check answers "available" for the slot of the validated
\* request against the current store.
AnsweredAvailable ==
    availability_errors(reservations, last.data.table,
                        last.data.reservation_date,
                        last.data.reservation_time, today) = {}

\* C27: for a booking request with a fitting guest count, the availability
\* check of the same table, date and time against the same store answers
\* available exactly when the booking is accepted.
C27_AvailabilityAgreesAsStated ==
    (last.op = "is_valid" /\ GuestCountFits)
        => (AnsweredAvailable <=> last.result = "valid")

\* C27 (amended): the two agree when the booking request carries no
\* restaurant_id, or the restaurant_id of a restaurant that has the table
\* among its active tables.
C27_AvailabilityAgrees ==
    (/\ last.op = "is_valid"
     /\ GuestCountFits
     /\ last.restaurant = NoRestaurant
            \/ last.data.table \in table_queryset(last.restaurant))
        => (AnsweredAvailable <=> last.result = "valid")

\* A booking with a fitting guest count has been refused for a conflict only,
\* and the availability check answers unavailable for the same slot.
C27_Witness ==
    /\ last.op = "is_valid"
    /\ GuestCountFits
    /\ last.errors = {"__all__"}
    /\ ~AnsweredAvailable


(***************************************************************************)
(* Concurrent lifecycle requests                                           *)
(***************************************************************************)

\* C28: when a cancel request and a confirm request for the same reservation
\* have both been served and the cancel has returned success, the
\* reservation is cancelled.
C28_CancelNotOverwritten ==
    \A v, w \in Workers :
        (/\ v # w
         /\ inflight[v].pc = "done" /\ inflight[w].pc = "done"
         /\ inflight[v].op = "cancel" /\ inflight[v].result = "redirect"
         /\ inflight[w].op = "confirm"
         /\ inflight[w].reservation_id = inflight[v].reservation_id)
            => reservations[inflight[v].reservation_id].status = "cancelled"

\* C29: the save of a reservation_deposit request changes no field of any
\* reservation other than deposit_amount, whatever was served between its
\* read and its save.
C29_DepositKeepsOtherFields ==
    [][\A w \in Workers :
        (inflight[w].pc = "loaded" /\ inflight[w].op = "deposit"
            /\ finish_request(w))
            => \A i \in 1..Len(reservations) :
                    [reservations'[i] EXCEPT !.deposit_amount = None]
                        = [reservations[i] EXCEPT !.deposit_amount = None]]_vars


(***************************************************************************)
(* Windows that run past midnight                                          *)
(***************************************************************************)

\* C30: no two active reservations of one table have overlapping booking
\* windows [date+time, date+time+2h), whatever their dates.
C30_NoOverlapAcrossDates ==
    \A i, j \in 1..Len(reservations) :
        (/\ i # j
         /\ IsActive(reservations[i]) /\ IsActive(reservations[j])
         /\ reservations[i].table = reservations[j].table)
            => ~Overlap(reservations[i].reservation_date,
                        reservations[i].reservation_time,
                        reservations[j].reservation_date,
                        reservations[j].reservation_time)

====
